---- MODULE Spec2Model ----
(***************************************************************************)
(* Model of image-convert (src/main.go): the worker pool of runConvert,    *)
(* the per-file pipeline convertOne with its temp-file + rename writes,    *)
(* makeOutPath, and the trailing generateThumbnailsForWebps pass.          *)
(*                                                                         *)
(* A path is a sequence of tokens ("d", "/", "a", ".", "png"); the path    *)
(* functions of the code (filepath.Dir/Base/Ext/Join, strings.TrimSuffix)  *)
(* work on those sequences.  The file system maps each existing path to a  *)
(* file [ino, data]; an open descriptor is the ino, so a writer that lost  *)
(* its path to a rename or to a truncating create still writes to the same *)
(* file, as on POSIX.                                                       *)
(***************************************************************************)
EXTENDS Naturals, Integers, Sequences, FiniteSets, TLC

\* ------------------------------------------------------------------ bounds
MaxJobs == 2
MaxWorkers == 2
MaxFaults == 1

\* ------------------------------------------------------------------ paths
Dot == "."
Sep == "/"
WebpExt == <<Dot, "webp">>
TmpExt == <<Dot, "tmp">>
ThumbSuffix == <<"_thumbnail", Dot, "webp">>

\* Byte order of the first character of each token; no token is a prefix of
\* another, so comparing token by token is comparing the strings.
TokRank(t) ==
    CASE t = Dot -> 1
      [] t = Sep -> 2
      [] t = "_thumbnail" -> 3
      [] t = "a" -> 4
      [] t = "b" -> 5
      [] t = "c" -> 6
      [] t = "d" -> 7
      [] t = "jpg" -> 8
      [] t = "png" -> 9
      [] t = "tiff" -> 10
      [] t = "tmp" -> 11
      [] t = "webp" -> 12
      [] OTHER -> 13

RECURSIVE PathLess(_, _)
PathLess(p, q) ==
    IF q = <<>> THEN FALSE
    ELSE IF p = <<>> THEN TRUE
    ELSE IF Head(p) = Head(q) THEN PathLess(Tail(p), Tail(q))
    ELSE TokRank(Head(p)) < TokRank(Head(q))

RECURSIVE SortPaths(_)
SortPaths(S) ==
    IF S = {} THEN <<>>
    ELSE LET m == CHOOSE x \in S : \A y \in S \ {x} : PathLess(x, y)
         IN  <<m>> \o SortPaths(S \ {m})

\* Index of the last occurrence of token t in p, 0 when there is none.
LastIndexOf(p, t) ==
    LET I == {i \in 1..Len(p) : p[i] = t}
    IN  IF I = {} THEN 0 ELSE CHOOSE i \in I : \A j \in I : j <= i

\* filepath.Dir and filepath.Base of a path with at least one separator.
Dir(p) == SubSeq(p, 1, LastIndexOf(p, Sep) - 1)
Base(p) == SubSeq(p, LastIndexOf(p, Sep) + 1, Len(p))
Join(dir, name) == dir \o <<Sep>> \o name

\* filepath.Ext: the suffix starting at the last dot, empty when there is none.
Ext(b) == IF LastIndexOf(b, Dot) = 0 THEN <<>> ELSE SubSeq(b, LastIndexOf(b, Dot), Len(b))

HasSuffix(s, suf) ==
    /\ Len(suf) <= Len(s)
    /\ SubSeq(s, Len(s) - Len(suf) + 1, Len(s)) = suf

TrimSuffix(s, suf) == IF HasSuffix(s, suf) THEN SubSeq(s, 1, Len(s) - Len(suf)) ELSE s

isHidden(name) == name # <<>> /\ Head(name) = Dot

AllowedExts == {<<Dot, "jpg">>, <<Dot, "png">>, <<Dot, "tiff">>, WebpExt}

\* ------------------------------------------------------------------ state
VARIABLES
    opts,           \* convertOptions: overwrite, deleteOriginal, workers, thumbnailPercent
    fs,             \* the directory: path -> [ino, data]
    fs0,            \* the directory as runConvert found it (history)
    files,          \* runConvert's files, the job list
    main,           \* position of the main goroutine (the collector)
    feeder,         \* position of the feeder goroutine
    next,           \* index in files of the job the feeder hands off next
    jobsClosed,     \* close(jobs) has happened
    resultsClosed,  \* close(results) has happened
    wg,             \* sync.WaitGroup counter
    wk,             \* worker -> convertOne's locals: [pc, job, path, img, outPath, ...]
    converted,      \* runConvert's converted counter
    failed,         \* runConvert's failed counter
    printed,        \* job -> the [OK]/[SKIP]/[FAIL] lines the collector printed for it
    recvCount,      \* job -> number of times a worker received it from jobs (history)
    calls,          \* job -> number of convertOne calls on it (history)
    produced,       \* job -> the outcomes convertOne returned for it (history)
    fault,          \* job -> the I/O failure injected into its conversion (history)
    touched,        \* job -> final (non-.tmp) paths its conversion wrote (history)
    webps,          \* generateThumbnailsForWebps's files
    gi,             \* index in webps of the file it handles next
    runErr,         \* runConvert returned an error
    img,            \* convertOne's img, the image being converted
    decoded,        \* the image as image.Decode returned it (history)
    phase,          \* position of convertOne in its trim / resize / thumbnail part
    thumbDims       \* <<thumbW, thumbH>> of the thumbnail block

vars == <<opts, fs, fs0, files, main, feeder, next, jobsClosed, resultsClosed,
          wg, wk, converted, failed, printed, recvCount, calls, produced, fault,
          touched, webps, gi, runErr, img, decoded, phase, thumbDims>>

\* convertOne's image and what it computes from it
imgVars == <<img, decoded, phase, thumbDims>>

\* ------------------------------------------------------------------ files
NoFd == <<>>
NoPath == <<>>
Empty == [kind |-> "empty", src |-> NoPath, scale |-> 0]
Partial == [kind |-> "partial", src |-> NoPath, scale |-> 0]
Image(p) == [kind |-> "img", src |-> p, scale |-> 0]
\* The WebP encoding of the image decoded from source p, after n thumbnail scalings.
Webp(p, n) == [kind |-> "webp", src |-> p, scale |-> n]

Exists(f, p) == p \in DOMAIN f

\* os.Remove: unlinks the path; the file lives on for the descriptors open on it.
Remove(f, p) == [q \in DOMAIN f \ {p} |-> f[q]]

\* os.Create: O_CREATE|O_TRUNC. An existing file is truncated in place (same ino).
Create(f, p, ino) ==
    IF Exists(f, p) THEN [f EXCEPT ![p].data = Empty]
    ELSE [q \in DOMAIN f \cup {p} |-> IF q = p THEN [ino |-> ino, data |-> Empty] ELSE f[q]]

CreatedFd(f, p, ino) == IF Exists(f, p) THEN f[p].ino ELSE ino

\* A write of a whole encoding at offset 0 of a descriptor. Onto an empty file it
\* leaves the encoding; onto bytes another writer left through its own descriptor
\* it leaves the encoding when that is the longer one, a mix of both otherwise.
Overlay(old, new, longer) ==
    IF old = Empty \/ old = new \/ longer THEN new ELSE Partial

WriteFd(f, fd, data, longer) ==
    [q \in DOMAIN f |->
        IF f[q].ino = fd THEN [f[q] EXCEPT !.data = Overlay(@, data, longer)] ELSE f[q]]

\* os.Rename of an existing path: replaces new atomically.
Rename(f, old, new) ==
    [q \in (DOMAIN f \ {old}) \cup {new} |-> IF q = new THEN f[old] ELSE f[q]]

\* ------------------------------------------------------------------ makeOutPath
makeOutPath(input) ==
    LET dir == Dir(input)
        base == Base(input)
        name == TrimSuffix(base, Ext(base))
    IN  IF opts.thumbnailPercent > 0
        THEN Join(dir, name \o ThumbSuffix)
        ELSE Join(dir, name \o WebpExt)

\* convertOne's thumbPath, and generateThumbnailsForWebps's.
ThumbPathOf(outPath) == TrimSuffix(outPath, WebpExt) \o ThumbSuffix

\* ------------------------------------------------------------------ convertOne
\* One call of convertOne is a sequence of steps, one per file-system operation
\* that another worker's step can fall between. A step maps the directory f and
\* the call's locals js to [fs, js]; flt says the step's fallible call fails,
\* longer that its write is the longer of two racing writes.
Return(js, e) == [js EXCEPT !.pc = "send", !.err = e, !.fd = NoFd]

Ino(js, stage) == <<js.job, stage>>

\* after the thumbnail block: "if opts.deleteOriginal"
AfterThumb(js) ==
    IF opts.deleteOriginal THEN [js EXCEPT !.pc = "delete"] ELSE Return(js, "nil")

\* after "in.Close()": "if opts.thumbnailPercent > 0 && opts.thumbnailPercent <= 100"
AfterPrimary(js) ==
    IF opts.thumbnailPercent > 0 /\ opts.thumbnailPercent <= 100
    THEN [js EXCEPT !.pc = "thumbCreate"]
    ELSE AfterThumb(js)

\* os.Open, image.Decode (trim and resize act on the decoded image only)
DoOpen(f, js, flt) ==
    IF ~Exists(f, js.path) \/ flt \/ f[js.path].data.kind # "img"
    THEN [fs |-> f, js |-> Return(js, "failed")]
    ELSE [fs |-> f, js |-> [js EXCEPT !.pc = "gate", !.img = f[js.path].data.src]]

\* DoGate without the os.Stat check: every job goes on to write.
DoGateNoStat(f, js, flt) ==
    [fs |-> f, js |-> [js EXCEPT !.outPath = makeOutPath(js.path), !.pc = "create"]]

\* "outPath := makeOutPath(inputPath)" and the existence/overwrite gate:
\* os.Stat(outPath), os.Remove(inputPath)
DoGate(f, js, flt) ==
    LET outPath == makeOutPath(js.path)
        at == [js EXCEPT !.outPath = outPath]
    IN  IF ~opts.overwrite /\ Exists(f, outPath)
        THEN IF opts.deleteOriginal
             THEN IF flt \/ ~Exists(f, js.path)
                  THEN [fs |-> f, js |-> Return(at, "failed")]
                  ELSE [fs |-> Remove(f, js.path), js |-> Return(at, "skipped")]
             ELSE [fs |-> f, js |-> Return(at, "skipped")]
        ELSE [fs |-> f, js |-> [at EXCEPT !.pc = "create"]]

\* os.Create(tmp)
CreateStep(f, js, flt, tmp, stage, nextpc) ==
    IF flt THEN [fs |-> f, js |-> Return(js, "failed")]
    ELSE [fs |-> Create(f, tmp, Ino(js, stage)),
          js |-> [js EXCEPT !.pc = nextpc, !.fd = CreatedFd(f, tmp, Ino(js, stage))]]

\* webp.Encode(out, img); on error out.Close(), os.Remove(tmp)
EncodeStep(f, js, flt, longer, tmp, data, nextpc) ==
    IF flt
    THEN [fs |-> Remove(WriteFd(f, js.fd, Partial, FALSE), tmp), js |-> Return(js, "failed")]
    ELSE [fs |-> WriteFd(f, js.fd, data, longer), js |-> [js EXCEPT !.pc = nextpc]]

\* out.Close(); on error os.Remove(tmp)
CloseStep(f, js, flt, tmp, nextpc) ==
    IF flt THEN [fs |-> Remove(f, tmp), js |-> Return(js, "failed")]
    ELSE [fs |-> f, js |-> [js EXCEPT !.pc = nextpc, !.fd = NoFd]]

\* RenameStep without the os.Remove(tmp) of its error path.
RenameStepLeak(f, js, flt, tmp, dest, after) ==
    IF flt \/ ~Exists(f, tmp)
    THEN [fs |-> f, js |-> Return(js, "failed")]
    ELSE [fs |-> Rename(f, tmp, dest), js |-> [after EXCEPT !.wrote = @ \cup {dest}]]

\* os.Rename(tmp, dest); on error os.Remove(tmp). It fails by itself when tmp is gone.
RenameStep(f, js, flt, tmp, dest, after) ==
    IF flt \/ ~Exists(f, tmp)
    THEN [fs |-> Remove(f, tmp), js |-> Return(js, "failed")]
    ELSE [fs |-> Rename(f, tmp, dest), js |-> [after EXCEPT !.wrote = @ \cup {dest}]]

\* "tmpPath := outPath + ".tmp"" and os.Create(tmpPath)
DoCreate(f, js, flt) ==
    CreateStep(f, [js EXCEPT !.tmpPath = js.outPath \o TmpExt], flt,
               js.outPath \o TmpExt, "primary", "encode")
DoEncode(f, js, flt, longer) ==
    EncodeStep(f, js, flt, longer, js.tmpPath, Webp(js.img, 0), "close")
\* DoClose that deletes the source as soon as the temp file is closed.
DoCloseThenDelete(f, js, flt) ==
    LET r == CloseStep(f, js, flt, js.tmpPath, "rename")
    IN  IF opts.deleteOriginal /\ r.js.pc = "rename"
        THEN [fs |-> Remove(r.fs, js.path), js |-> r.js]
        ELSE r

DoClose(f, js, flt) == CloseStep(f, js, flt, js.tmpPath, "rename")
DoRename(f, js, flt) ==
    RenameStep(f, js, flt, js.tmpPath, js.outPath, AfterPrimary(js))

\* "thumbPath := ...", "tmpThumb := thumbPath + ".tmp"" and os.Create(tmpThumb)
DoThumbCreate(f, js, flt) ==
    LET thumbPath == ThumbPathOf(js.outPath)
        at == [js EXCEPT !.thumbPath = thumbPath, !.tmpThumb = thumbPath \o TmpExt]
    IN  CreateStep(f, at, flt, at.tmpThumb, "thumb", "thumbEncode")
DoThumbEncode(f, js, flt, longer) ==
    EncodeStep(f, js, flt, longer, js.tmpThumb, Webp(js.img, 1), "thumbClose")
DoThumbClose(f, js, flt) == CloseStep(f, js, flt, js.tmpThumb, "thumbRename")
DoThumbRename(f, js, flt) ==
    RenameStep(f, js, flt, js.tmpThumb, js.thumbPath, AfterThumb(js))

\* DoDelete that drops the error of os.Remove.
DoDeleteIgnoringError(f, js, flt) ==
    IF flt \/ ~Exists(f, js.path)
    THEN [fs |-> f, js |-> Return(js, "nil")]
    ELSE [fs |-> Remove(f, js.path), js |-> Return(js, "nil")]

\* "if opts.deleteOriginal { os.Remove(inputPath) }" at the end
DoDelete(f, js, flt) ==
    IF flt \/ ~Exists(f, js.path)
    THEN [fs |-> f, js |-> Return(js, "failed")]
    ELSE [fs |-> Remove(f, js.path), js |-> Return(js, "nil")]

ConvertPcs == {"open", "gate", "create", "encode", "close", "rename",
               "thumbCreate", "thumbEncode", "thumbClose", "thumbRename", "delete"}

convertOneStep(f, js, flt, longer) ==
    CASE js.pc = "open" -> DoOpen(f, js, flt)
      [] js.pc = "gate" -> DoGate(f, js, flt)
      [] js.pc = "create" -> DoCreate(f, js, flt)
      [] js.pc = "encode" -> DoEncode(f, js, flt, longer)
      [] js.pc = "close" -> DoClose(f, js, flt)
      [] js.pc = "rename" -> DoRename(f, js, flt)
      [] js.pc = "thumbCreate" -> DoThumbCreate(f, js, flt)
      [] js.pc = "thumbEncode" -> DoThumbEncode(f, js, flt, longer)
      [] js.pc = "thumbClose" -> DoThumbClose(f, js, flt)
      [] js.pc = "thumbRename" -> DoThumbRename(f, js, flt)
      [] js.pc = "delete" -> DoDelete(f, js, flt)

\* The failure each step can be made to suffer.
FaultAt(pc) ==
    CASE pc = "open" -> "decode"
      [] pc \in {"gate", "delete"} -> "remove"
      [] OTHER -> pc

\* Whether the step makes its fallible call at all (the gate removes the source
\* only on the skip path with deleteOriginal).
CanFail(f, js) ==
    js.pc = "gate" =>
        /\ ~opts.overwrite /\ Exists(f, makeOutPath(js.path))
        /\ opts.deleteOriginal

\* Whether the step's write lands on bytes that another descriptor wrote.
Races(f, js) ==
    /\ js.pc \in {"encode", "thumbEncode"}
    /\ \E q \in DOMAIN f : f[q].ino = js.fd /\ f[q].data # Empty

NewCall(i, p) ==
    [pc |-> "open", job |-> i, path |-> p, img |-> NoPath, outPath |-> NoPath,
     tmpPath |-> NoPath, thumbPath |-> NoPath, tmpThumb |-> NoPath, fd |-> NoFd,
     err |-> "nil", wrote |-> {}]

\* convertOne from its first step to its return with no other worker's step in
\* between: the call as a function of the directory and of the failure (kind)
\* injected into it.
RECURSIVE convertOne(_, _, _)
convertOne(f, js, kind) ==
    IF js.pc = "send" THEN [fs |-> f, js |-> js]
    ELSE LET r == convertOneStep(f, js, kind = FaultAt(js.pc), TRUE)
         IN  convertOne(r.fs, r.js, kind)

IsTmp(p) == Ext(Base(p)) = TmpExt
IsWebp(p) == Ext(Base(p)) = WebpExt

\* ------------------------------------------------------------------ discovery
collectImageFiles(f) ==
    SortPaths({p \in DOMAIN f :
        /\ ~isHidden(Base(p))
        /\ Ext(Base(p)) \in AllowedExts
        /\ Ext(Base(p)) # WebpExt})

collectWebpFiles(f) ==
    SortPaths({p \in DOMAIN f : ~isHidden(Base(p)) /\ Ext(Base(p)) = WebpExt})

\* ------------------------------------------------------------------ Init
\* The images a directory can hold before the first run, in listing order.
SourcePool ==
    << <<"d", Sep, "a", Dot, "jpg">>,
       <<"d", Sep, "b", Dot, "png">>,
       <<"d", Sep, "b", Dot, "tiff">> >>

ThumbPercents == {0, 50}

Blank ==
    /\ files = <<>>
    /\ fs0 = <<>>
    /\ main = "start"
    /\ feeder = "none"
    /\ next = 1
    /\ jobsClosed = FALSE
    /\ resultsClosed = FALSE
    /\ wg = 0
    /\ wk = <<>>
    /\ converted = 0
    /\ failed = 0
    /\ printed = <<>>
    /\ recvCount = <<>>
    /\ calls = <<>>
    /\ produced = <<>>
    /\ fault = <<>>
    /\ touched = <<>>
    /\ webps = <<>>
    /\ gi = 1
    /\ runErr = FALSE

\* The pool converts images whose pixels are left out: Image(p) stands for them.
NoImage == [w |-> 0, h |-> 0, pix |-> <<>>]

NoPixels ==
    /\ img = NoImage
    /\ decoded = NoImage
    /\ phase = "none"
    /\ thumbDims = <<0, 0>>

\* A directory the program can be started on: at most MaxJobs of the images and,
\* for some of them, the output an earlier conversion left at their output path.
Directory(S, pre) ==
    LET out(i) == makeOutPath(SourcePool[i])
        P == {SourcePool[i] : i \in S} \cup {out(i) : i \in pre}
    IN  [p \in P |->
            IF \E i \in pre : out(i) = p
            THEN LET i == CHOOSE j \in pre : out(j) = p
                 IN  [ino |-> <<i, "old">>, data |-> Webp(SourcePool[i], 0)]
            ELSE LET i == CHOOSE j \in S : SourcePool[j] = p
                 IN  [ino |-> <<i, "src">>, data |-> Image(p)]]

Init ==
    /\ opts \in [overwrite : BOOLEAN, deleteOriginal : BOOLEAN,
                 workers : 0..MaxWorkers, thumbnailPercent : ThumbPercents,
                 trim : {FALSE}, trimThreshold : {0}, maxWidth : {0}, maxHeight : {0}]
    /\ \E S \in SUBSET (1..Len(SourcePool)) :
          /\ Cardinality(S) <= MaxJobs
          /\ \E pre \in SUBSET S : fs = Directory(S, pre)
    /\ Blank
    /\ NoPixels

\* ------------------------------------------------------------------ runConvert
poolVars == <<feeder, next, jobsClosed, resultsClosed, wg, wk, converted, failed,
              printed, recvCount, calls, produced, fault, touched>>

\* "if opts.workers < 1 { return fmt.Errorf(...) }"
RejectWorkers ==
    /\ main = "start"
    /\ opts.workers < 1
    /\ main' = "exit"
    /\ runErr' = TRUE
    /\ UNCHANGED <<opts, fs, fs0, files, webps, gi>>
    /\ UNCHANGED poolVars
    /\ UNCHANGED imgVars

\* "if len(files) == 0": only the thumbnail pass, when one is asked for
NoImages ==
    /\ main = "start"
    /\ opts.workers >= 1
    /\ collectImageFiles(fs) = <<>>
    /\ fs0' = fs
    /\ IF opts.thumbnailPercent > 0
       THEN main' = "genThumbs" /\ webps' = collectWebpFiles(fs)
       ELSE main' = "exit" /\ webps' = webps
    /\ UNCHANGED <<opts, fs, files, gi, runErr>>
    /\ UNCHANGED poolVars
    /\ UNCHANGED imgVars

Idle == [pc |-> "recv", job |-> 0, path |-> NoPath, img |-> NoPath, outPath |-> NoPath,
         tmpPath |-> NoPath, thumbPath |-> NoPath, tmpThumb |-> NoPath, fd |-> NoFd,
         err |-> "nil", wrote |-> {}]

\* make(chan), the loop that starts workerCount workers, "go func" of the feeder
StartPool ==
    /\ main = "start"
    /\ opts.workers >= 1
    /\ collectImageFiles(fs) # <<>>
    /\ files' = collectImageFiles(fs)
    /\ fs0' = fs
    /\ wk' = [w \in 1..opts.workers |-> Idle]
    /\ wg' = opts.workers
    /\ feeder' = "feed"
    /\ next' = 1
    /\ jobsClosed' = FALSE
    /\ resultsClosed' = FALSE
    /\ converted' = 0
    /\ failed' = 0
    /\ printed' = [i \in 1..Len(files') |-> <<>>]
    /\ recvCount' = [i \in 1..Len(files') |-> 0]
    /\ calls' = [i \in 1..Len(files') |-> 0]
    /\ produced' = [i \in 1..Len(files') |-> <<>>]
    /\ fault' = [i \in 1..Len(files') |-> "none"]
    /\ touched' = [i \in 1..Len(files') |-> {}]
    /\ main' = "collect"
    /\ UNCHANGED <<opts, fs, webps, gi, runErr>>
    /\ UNCHANGED imgVars

\* Handoff with a feeder that does not move on to the next job.
HandoffStale(w) ==
    /\ feeder = "feed"
    /\ next <= Len(files)
    /\ ~jobsClosed
    /\ wk[w].pc = "recv"
    /\ wk' = [wk EXCEPT ![w] = NewCall(next, files[next])]
    /\ recvCount' = [recvCount EXCEPT ![next] = @ + 1]
    /\ next' = next
    /\ UNCHANGED <<opts, fs, fs0, files, main, feeder, jobsClosed, resultsClosed,
                   wg, converted, failed, printed, calls, produced, fault, touched,
                   webps, gi, runErr>>
    /\ UNCHANGED imgVars

\* Handoff with a jobs channel that takes a job while the worker is still busy.
HandoffBusy(w) ==
    /\ feeder = "feed"
    /\ next <= Len(files)
    /\ ~jobsClosed
    /\ wk[w].pc \notin {"exit"}
    /\ wk' = [wk EXCEPT ![w] = NewCall(next, files[next])]
    /\ recvCount' = [recvCount EXCEPT ![next] = @ + 1]
    /\ next' = next + 1
    /\ UNCHANGED <<opts, fs, fs0, files, main, feeder, jobsClosed, resultsClosed,
                   wg, converted, failed, printed, calls, produced, fault, touched,
                   webps, gi, runErr>>
    /\ UNCHANGED imgVars

\* "jobs <- f" meeting a worker's "for path := range jobs"
Handoff(w) ==
    /\ feeder = "feed"
    /\ next <= Len(files)
    /\ ~jobsClosed
    /\ wk[w].pc = "recv"
    /\ wk' = [wk EXCEPT ![w] = NewCall(next, files[next])]
    /\ recvCount' = [recvCount EXCEPT ![next] = @ + 1]
    /\ next' = next + 1
    /\ UNCHANGED <<opts, fs, fs0, files, main, feeder, jobsClosed, resultsClosed,
                   wg, converted, failed, printed, calls, produced, fault, touched,
                   webps, gi, runErr>>
    /\ UNCHANGED imgVars

\* CloseJobs with a feeder that goes on to wg.Wait() without closing jobs.
CloseJobsForgotten ==
    /\ feeder = "feed"
    /\ next > Len(files)
    /\ jobsClosed' = jobsClosed
    /\ feeder' = "wait"
    /\ UNCHANGED <<opts, fs, fs0, files, main, next, resultsClosed, wg, wk,
                   converted, failed, printed, recvCount, calls, produced, fault,
                   touched, webps, gi, runErr>>
    /\ UNCHANGED imgVars

\* "close(jobs)" after the feeder's loop
CloseJobs ==
    /\ feeder = "feed"
    /\ next > Len(files)
    /\ jobsClosed' = TRUE
    /\ feeder' = "wait"
    /\ UNCHANGED <<opts, fs, fs0, files, main, next, resultsClosed, wg, wk,
                   converted, failed, printed, recvCount, calls, produced, fault,
                   touched, webps, gi, runErr>>
    /\ UNCHANGED imgVars

\* the range loop of a worker ends on the closed channel: "defer wg.Done()"
WorkerExit(w) ==
    /\ wk[w].pc = "recv"
    /\ jobsClosed
    /\ wk' = [wk EXCEPT ![w].pc = "exit"]
    /\ wg' = wg - 1
    /\ UNCHANGED <<opts, fs, fs0, files, main, feeder, next, jobsClosed,
                   resultsClosed, converted, failed, printed, recvCount, calls,
                   produced, fault, touched, webps, gi, runErr>>
    /\ UNCHANGED imgVars

\* FeederWait without the barrier: the feeder goes on before the workers are done.
FeederWaitNoBarrier ==
    /\ feeder = "wait"
    /\ feeder' = "closeResults"
    /\ UNCHANGED <<opts, fs, fs0, files, main, next, jobsClosed, resultsClosed,
                   wg, wk, converted, failed, printed, recvCount, calls, produced,
                   fault, touched, webps, gi, runErr>>
    /\ UNCHANGED imgVars

\* "wg.Wait()"
FeederWait ==
    /\ feeder = "wait"
    /\ wg = 0
    /\ feeder' = "closeResults"
    /\ UNCHANGED <<opts, fs, fs0, files, main, next, jobsClosed, resultsClosed,
                   wg, wk, converted, failed, printed, recvCount, calls, produced,
                   fault, touched, webps, gi, runErr>>
    /\ UNCHANGED imgVars

\* "close(results)"
CloseResults ==
    /\ feeder = "closeResults"
    /\ resultsClosed' = TRUE
    /\ feeder' = "exit"
    /\ UNCHANGED <<opts, fs, fs0, files, main, next, jobsClosed, wg, wk,
                   converted, failed, printed, recvCount, calls, produced, fault,
                   touched, webps, gi, runErr>>
    /\ UNCHANGED imgVars

\* ------------------------------------------------------------------ workers
Faulty == {i \in DOMAIN fault : fault[i] # "none"}

\* A failure can be injected into a step that makes a fallible call, while fewer
\* than MaxFaults jobs of the run have failed that way.
FaultChoices(js) ==
    IF CanFail(fs, js) /\ Cardinality(Faulty) < MaxFaults THEN BOOLEAN ELSE {FALSE}

LongerChoices(js) == IF Races(fs, js) THEN BOOLEAN ELSE {TRUE}

\* Worker w takes the step of convertOne it stands at.
WorkerStep(w, pcname) ==
    /\ w \in DOMAIN wk
    /\ wk[w].pc = pcname
    /\ \E flt \in FaultChoices(wk[w]), longer \in LongerChoices(wk[w]) :
          LET r == convertOneStep(fs, wk[w], flt, longer)
              i == wk[w].job
          IN  /\ fs' = r.fs
              /\ wk' = [wk EXCEPT ![w] = r.js]
              /\ fault' = IF flt THEN [fault EXCEPT ![i] = FaultAt(pcname)] ELSE fault
              /\ produced' = IF r.js.pc = "send"
                             THEN [produced EXCEPT ![i] = Append(@, r.js.err)]
                             ELSE produced
              /\ touched' = [touched EXCEPT ![i] = @ \cup r.js.wrote]
              /\ calls' = IF pcname = "open" THEN [calls EXCEPT ![i] = @ + 1] ELSE calls
    /\ UNCHANGED <<opts, fs0, files, main, feeder, next, jobsClosed, resultsClosed,
                   wg, converted, failed, printed, recvCount, webps, gi, runErr>>
    /\ UNCHANGED imgVars

Open(w) == WorkerStep(w, "open")
Gate(w) == WorkerStep(w, "gate")
CreateTmp(w) == WorkerStep(w, "create")
Encode(w) == WorkerStep(w, "encode")
CloseTmp(w) == WorkerStep(w, "close")
RenameTmp(w) == WorkerStep(w, "rename")
ThumbCreate(w) == WorkerStep(w, "thumbCreate")
ThumbEncode(w) == WorkerStep(w, "thumbEncode")
ThumbClose(w) == WorkerStep(w, "thumbClose")
ThumbRename(w) == WorkerStep(w, "thumbRename")
DeleteOriginal(w) == WorkerStep(w, "delete")

\* ------------------------------------------------------------------ collector
Line(err) ==
    CASE err = "nil" -> "OK"
      [] err = "skipped" -> "SKIP"
      [] OTHER -> "FAIL"

\* "results <- result{...}" meeting "for r := range results", and the loop body
Collect(w) ==
    /\ main = "collect"
    /\ ~resultsClosed
    /\ w \in DOMAIN wk
    /\ wk[w].pc = "send"
    /\ printed' = [printed EXCEPT ![wk[w].job] = Append(@, Line(wk[w].err))]
    /\ converted' = IF wk[w].err = "nil" THEN converted + 1 ELSE converted
    /\ failed' = IF wk[w].err = "failed" THEN failed + 1 ELSE failed
    /\ wk' = [wk EXCEPT ![w] = Idle]
    /\ UNCHANGED <<opts, fs, fs0, files, main, feeder, next, jobsClosed,
                   resultsClosed, wg, recvCount, calls, produced, fault, touched,
                   webps, gi, runErr>>
    /\ UNCHANGED imgVars

\* the collector's loop ends on the closed channel; "Done."; the thumbnail pass
EndCollect ==
    /\ main = "collect"
    /\ resultsClosed
    /\ IF opts.thumbnailPercent > 0
       THEN main' = "genThumbs" /\ webps' = collectWebpFiles(fs)
       ELSE main' = "exit" /\ webps' = webps
    /\ UNCHANGED <<opts, fs, fs0, files, gi, runErr>>
    /\ UNCHANGED poolVars
    /\ UNCHANGED imgVars

\* ------------------------------------------------------------------ generateThumbnailsForWebps
\* One iteration of its loop; nothing else runs beside it.
GenThumb ==
    /\ main = "genThumbs"
    /\ gi <= Len(webps)
    /\ LET p == webps[gi]
           thumbPath == ThumbPathOf(p)
           tmp == thumbPath \o TmpExt
           ino == <<gi, "gen">>
       IN  IF ~opts.overwrite /\ Exists(fs, thumbPath)
           THEN gi' = gi + 1 /\ UNCHANGED <<fs, main, runErr>>
           ELSE IF ~Exists(fs, p) \/ fs[p].data.kind # "webp"
           THEN main' = "exit" /\ runErr' = TRUE /\ UNCHANGED <<fs, gi>>
           ELSE \E flt \in BOOLEAN :
                   IF flt
                   THEN main' = "exit" /\ runErr' = TRUE /\ UNCHANGED <<fs, gi>>
                   ELSE /\ fs' = Rename(
                                   WriteFd(Create(fs, tmp, ino), CreatedFd(fs, tmp, ino),
                                           Webp(fs[p].data.src, fs[p].data.scale + 1), TRUE),
                                   tmp, thumbPath)
                        /\ gi' = gi + 1
                        /\ UNCHANGED <<main, runErr>>
    /\ UNCHANGED <<opts, fs0, files, webps>>
    /\ UNCHANGED poolVars
    /\ UNCHANGED imgVars

GenThumbsDone ==
    /\ main = "genThumbs"
    /\ gi > Len(webps)
    /\ main' = "exit"
    /\ UNCHANGED <<opts, fs, fs0, files, webps, gi, runErr>>
    /\ UNCHANGED poolVars
    /\ UNCHANGED imgVars

Next ==
    \/ RejectWorkers
    \/ NoImages
    \/ StartPool
    \/ \E w \in DOMAIN wk : Handoff(w)
    \/ CloseJobs
    \/ \E w \in DOMAIN wk : WorkerExit(w)
    \/ FeederWait
    \/ CloseResults
    \/ \E w \in DOMAIN wk : Open(w)
    \/ \E w \in DOMAIN wk : Gate(w)
    \/ \E w \in DOMAIN wk : CreateTmp(w)
    \/ \E w \in DOMAIN wk : Encode(w)
    \/ \E w \in DOMAIN wk : CloseTmp(w)
    \/ \E w \in DOMAIN wk : RenameTmp(w)
    \/ \E w \in DOMAIN wk : ThumbCreate(w)
    \/ \E w \in DOMAIN wk : ThumbEncode(w)
    \/ \E w \in DOMAIN wk : ThumbClose(w)
    \/ \E w \in DOMAIN wk : ThumbRename(w)
    \/ \E w \in DOMAIN wk : DeleteOriginal(w)
    \/ \E w \in DOMAIN wk : Collect(w)
    \/ EndCollect
    \/ GenThumb
    \/ GenThumbsDone

Spec == Init /\ [][Next]_vars

\* The runs in which convertOne has every one of its steps to take: a thumbnail
\* to write and the source to delete, and a gate that skips existing outputs.
\* Every directory, job list and worker count of Init remains.
LiveInit ==
    /\ Init
    /\ opts.thumbnailPercent > 0
    /\ opts.deleteOriginal
    /\ ~opts.overwrite

\* The Go scheduler keeps running goroutines that can run: some step is taken
\* whenever one is possible. Each convertOne call returns, a step at a time.
FairSpec == LiveInit /\ [][Next]_vars /\ WF_vars(Next)

\* ------------------------------------------------------------------ images
\* convertOne's work on the decoded image: trimImage, the clamp-resize, the
\* thumbnail size. An image is [w, h, pix], origin at (0, 0), pix a function of
\* <<x, y>>. A pixel is [model, c, a]: one colour channel and alpha, 8 bits
\* each, "NRGBA" as image/png decodes it (alpha not premultiplied) or "RGBA" as
\* image.NewRGBA stores it (premultiplied).
MaxSide == 3      \* images drawn pixel by pixel: width and height
MaxPixels == 6    \*   and number of pixels
MaxDim == 6       \* plain images: width and height; maxWidth and maxHeight

Coords(w, h) == (0..(w - 1)) \X (0..(h - 1))
At(m, x, y) == m.pix[<<x, y>>]

\* color.Color.RGBA(): 16-bit alpha-premultiplied channels.
\* NRGBA: "r |= r << 8; r *= uint32(c.A); r /= 0xff", "a |= a << 8".
RGBA(c) ==
    IF c.model = "NRGBA"
    THEN [r |-> ((c.c * 257) * c.a) \div 255, a |-> c.a * 257]
    ELSE [r |-> c.c * 257, a |-> c.a * 257]

\* color.RGBAModel.Convert, which (*image.RGBA).Set applies: "uint8(r >> 8)".
rgbaModel(c) ==
    IF c.model = "RGBA" THEN c
    ELSE [model |-> "RGBA", c |-> (RGBA(c).r \div 256) % 256, a |-> (RGBA(c).a \div 256) % 256]

\* "a8 := uint8(a >> 8); return a8 <= threshold"
isTransparent(c, threshold) == (RGBA(c).a \div 256) % 256 <= threshold

\* The scan of findContentBounds from pixel k on, row by row; b holds minX,
\* minY, maxX, maxY so far.
RECURSIVE ScanBounds(_, _, _, _)
ScanBounds(m, threshold, k, b) ==
    IF k >= m.w * m.h THEN b
    ELSE LET x == k % m.w
             y == k \div m.w
             nb == IF isTransparent(At(m, x, y), threshold) THEN b
                   ELSE [minX |-> IF x < b.minX THEN x ELSE b.minX,
                         minY |-> IF y < b.minY THEN y ELSE b.minY,
                         maxX |-> IF x > b.maxX THEN x ELSE b.maxX,
                         maxY |-> IF y > b.maxY THEN y ELSE b.maxY]
         IN  ScanBounds(m, threshold, k + 1, nb)

\* findContentBounds without the final "maxX++; maxY++".
findContentBoundsInclusive(m, threshold) ==
    ScanBounds(m, threshold, 0, [minX |-> m.w, minY |-> m.h, maxX |-> 0, maxY |-> 0])

findContentBounds(m, threshold) ==
    LET b == ScanBounds(m, threshold, 0,
                        [minX |-> m.w, minY |-> m.h, maxX |-> 0, maxY |-> 0])
    IN  [b EXCEPT !.maxX = @ + 1, !.maxY = @ + 1]

\* trimImage that returns the original only when "minX > maxX || minY > maxY".
trimImageStrict(m, threshold) ==
    LET b == findContentBounds(m, threshold)
    IN  IF b.minX > b.maxX \/ b.minY > b.maxY THEN m
        ELSE [w |-> b.maxX - b.minX, h |-> b.maxY - b.minY,
              pix |-> [xy \in Coords(b.maxX - b.minX, b.maxY - b.minY) |->
                          rgbaModel(At(m, xy[1] + b.minX, xy[2] + b.minY))]]

\* trimImage: the image itself, or a new RGBA image of the content box, each
\* pixel put there with Set(x-minX, y-minY, img.At(x, y)).
trimImage(m, threshold) ==
    LET b == findContentBounds(m, threshold)
    IN  IF b.minX >= b.maxX \/ b.minY >= b.maxY THEN m
        ELSE [w |-> b.maxX - b.minX, h |-> b.maxY - b.minY,
              pix |-> [xy \in Coords(b.maxX - b.minX, b.maxY - b.minY) |->
                          rgbaModel(At(m, xy[1] + b.minX, xy[2] + b.minY))]]

\* int(math.Round(float64(n) * float64(num) / float64(den))) for n, num >= 0 and
\* den > 0: the quotient rounded half away from zero. (In float64 the product
\* with scale = num/den first differs from this at n = 11, num = 15, den = 22,
\* beyond the sizes drawn here.)
RoundDiv(n, num, den) == (2 * n * num + den) \div (2 * den)

\* The width pass of the clamp-resize: <<newW, newH>> after it.
WidthPass(d, maxWidth) ==
    IF maxWidth > 0 /\ d[1] > maxWidth
    THEN <<maxWidth, RoundDiv(d[2], maxWidth, d[1])>>
    ELSE d

\* The height pass, which compares and scales the height the width pass left.
HeightPass(d, maxHeight) ==
    IF maxHeight > 0 /\ d[2] > maxHeight
    THEN <<RoundDiv(d[1], maxHeight, d[2]), maxHeight>>
    ELSE d

\* ClampSize with a height pass that compares and scales the original height.
ClampSizeOriginalHeight(ow, oh, maxWidth, maxHeight) ==
    IF maxWidth > 0 \/ maxHeight > 0
    THEN LET d1 == WidthPass(<<ow, oh>>, maxWidth)
             d2 == IF maxHeight > 0 /\ oh > maxHeight
                   THEN <<RoundDiv(ow, maxHeight, oh), maxHeight>>
                   ELSE d1
         IN  IF d2[1] > 0 /\ d2[2] > 0 /\ (d2[1] # ow \/ d2[2] # oh) THEN d2 ELSE <<ow, oh>>
    ELSE <<ow, oh>>

\* The size of img after the resize block of convertOne.
ClampSize(ow, oh, maxWidth, maxHeight) ==
    IF maxWidth > 0 \/ maxHeight > 0
    THEN LET d2 == HeightPass(WidthPass(<<ow, oh>>, maxWidth), maxHeight)
         IN  IF d2[1] > 0 /\ d2[2] > 0 /\ (d2[1] # ow \/ d2[2] # oh) THEN d2 ELSE <<ow, oh>>
    ELSE <<ow, oh>>

\* A pixel that draw.CatmullRom.Scale computed; no more is said about it.
Resampled == [model |-> "RGBA", c |-> "resampled", a |-> "resampled"]

\* image.NewRGBA(image.Rect(0, 0, w, h)) filled by draw.CatmullRom.Scale.
Scale(w, h) == [w |-> w, h |-> h, pix |-> [xy \in Coords(w, h) |-> Resampled]]

\* The thumbnail size without the "if thumbW < 1 { thumbW = 1 }" clamps.
ThumbSizeUnclamped(w, h, percent) ==
    <<RoundDiv(w, percent, 100), RoundDiv(h, percent, 100)>>

\* thumbW, thumbH of the thumbnail block, clamped to at least 1.
ThumbSize(w, h, percent) ==
    LET thumbW == RoundDiv(w, percent, 100)
        thumbH == RoundDiv(h, percent, 100)
    IN  <<IF thumbW < 1 THEN 1 ELSE thumbW, IF thumbH < 1 THEN 1 ELSE thumbH>>

\* Decoded pixels: fully transparent, half transparent, opaque.
Clear == [model |-> "NRGBA", c |-> 0, a |-> 0]
Translucent == [model |-> "NRGBA", c |-> 100, a |-> 128]
Opaque == [model |-> "NRGBA", c |-> 100, a |-> 255]
Pixels == {Clear, Translucent, Opaque}
Thresholds == {0, 128, 255}
Percents == {1, 10, 49, 50, 99, 100}

PixelSizes == {d \in (1..MaxSide) \X (1..MaxSide) : d[1] * d[2] <= MaxPixels}

PixelImages ==
    UNION {{[w |-> d[1], h |-> d[2], pix |-> f] : f \in [Coords(d[1], d[2]) -> Pixels]} :
              d \in PixelSizes}

PlainImages ==
    {[w |-> w, h |-> h, pix |-> [xy \in Coords(w, h) |-> Opaque]] :
        w \in 1..MaxDim, h \in 1..MaxDim}

\* convertOne just after image.Decode: small images of any pixels to be trimmed,
\* or plain images of any size to be resized and thumbnailed.
ImageInit ==
    /\ \/ /\ img \in PixelImages
          /\ opts \in [overwrite : {FALSE}, deleteOriginal : {FALSE}, workers : {1},
                       thumbnailPercent : {50}, trim : {TRUE},
                       trimThreshold : Thresholds, maxWidth : 0..1, maxHeight : 0..1]
       \/ /\ img \in PlainImages
          /\ opts \in [overwrite : {FALSE}, deleteOriginal : {FALSE}, workers : {1},
                       thumbnailPercent : Percents, trim : {FALSE},
                       trimThreshold : {0}, maxWidth : 0..MaxDim, maxHeight : 0..MaxDim]
    /\ decoded = img
    /\ phase = "trim"
    /\ thumbDims = <<0, 0>>
    /\ fs = <<>>
    /\ Blank

\* "if opts.trim { img = trimImage(img, opts.trimThreshold) }"
TrimStep ==
    /\ phase = "trim"
    /\ img' = IF opts.trim THEN trimImage(img, opts.trimThreshold) ELSE img
    /\ phase' = "resize"
    /\ UNCHANGED <<opts, fs, fs0, files, main, webps, gi, runErr, decoded, thumbDims>>
    /\ UNCHANGED poolVars

\* "if opts.maxWidth > 0 || opts.maxHeight > 0 { ... img = dst }"
ResizeStep ==
    /\ phase = "resize"
    /\ LET d == ClampSize(img.w, img.h, opts.maxWidth, opts.maxHeight)
       IN  img' = IF d = <<img.w, img.h>> THEN img ELSE Scale(d[1], d[2])
    /\ phase' = "thumbnail"
    /\ UNCHANGED <<opts, fs, fs0, files, main, webps, gi, runErr, decoded, thumbDims>>
    /\ UNCHANGED poolVars

\* "if opts.thumbnailPercent > 0 && opts.thumbnailPercent <= 100 { thumbW := ... }"
ThumbnailStep ==
    /\ phase = "thumbnail"
    /\ thumbDims' = IF opts.thumbnailPercent > 0 /\ opts.thumbnailPercent <= 100
                    THEN ThumbSize(img.w, img.h, opts.thumbnailPercent)
                    ELSE thumbDims
    /\ phase' = "encode"
    /\ UNCHANGED <<opts, fs, fs0, files, main, webps, gi, runErr, img, decoded>>
    /\ UNCHANGED poolVars

ImageNext ==
    \/ TrimStep
    \/ ResizeStep
    \/ ThumbnailStep

ImageSpec == ImageInit /\ [][ImageNext]_vars

\* ------------------------------------------------------------------ properties
Jobs == DOMAIN files
Workers == DOMAIN wk
InFlight(w) == wk[w].pc \in ConvertPcs

\* The collector has left its receive loop.
LoopEnded == files # <<>> /\ main \in {"genThumbs", "exit"}

\* The collector has left its loop and the thumbnail pass has not touched anything.
PoolDone == LoopEnded /\ gi = 1 /\ ~runErr

RECURSIVE SumUpTo(_, _)
SumUpTo(g, n) == IF n = 0 THEN 0 ELSE g[n] + SumUpTo(g, n - 1)

\* Number of lines of one kind that the collector printed.
Lines(kind) ==
    SumUpTo([i \in Jobs |-> Cardinality({k \in 1..Len(printed[i]) : printed[i][k] = kind})],
            Len(files))


\* C1: every job is received by exactly one worker, converted exactly once, gets
\* exactly one outcome, and the collector receives that outcome exactly once; when
\* the collector's loop has ended its tally (converted + failed + skipped) is N.
ExactlyOnce ==
    /\ \A i \in Jobs :
          /\ recvCount[i] <= 1
          /\ calls[i] <= recvCount[i]
          /\ Len(produced[i]) <= calls[i]
          /\ Len(printed[i]) <= Len(produced[i])
          /\ Len(printed[i]) = 1 => printed[i][1] = Line(produced[i][1])
    /\ converted = Lines("OK")
    /\ failed = Lines("FAIL")
    /\ LoopEnded =>
          /\ \A i \in Jobs : recvCount[i] = 1 /\ calls[i] = 1 /\ Len(printed[i]) = 1
          /\ converted + failed + Lines("SKIP") = Len(files)

\* A two-worker run over two jobs has ended with one job converted, one failed.
ExactlyOnceWitness ==
    /\ LoopEnded
    /\ Len(files) = 2
    /\ opts.workers = 2
    /\ converted = 1
    /\ failed = 1

\* C3: every destination (.webp) path is absent or holds a completely written
\* file: complete WebP data that no worker still has open for writing.
Complete(p) ==
    /\ fs[p].data.kind = "webp"
    /\ \A w \in Workers : wk[w].fd # fs[p].ino

DestinationNeverPartial == \A p \in DOMAIN fs : IsWebp(p) => Complete(p)

\* C9: no two jobs in flight at the same moment use a common path (source,
\* temp or destination).
TmpOf(js) == makeOutPath(js.path) \o TmpExt
ThumbOf(js) == ThumbPathOf(makeOutPath(js.path))
TmpThumbOf(js) == ThumbOf(js) \o TmpExt

PathsOf(js) ==
    {js.path, makeOutPath(js.path), TmpOf(js)}
        \cup (IF opts.thumbnailPercent > 0 /\ opts.thumbnailPercent <= 100
              THEN {ThumbOf(js), TmpThumbOf(js)} ELSE {})

PathsOwnedByOneWorker ==
    \A v, w \in Workers :
        (v # w /\ InFlight(v) /\ InFlight(w)) => PathsOf(wk[v]) \cap PathsOf(wk[w]) = {}

\* C10: every final file a conversion job writes is <name>.webp or
\* <name>_thumbnail.webp in the source's directory, the primary output being
\* <name>.webp with thumbnailPercent = 0 and <name>_thumbnail.webp otherwise.
NameOf(src) == SubSeq(Base(src), 1, Len(Base(src)) - 2)
PlainName(src) == Dir(src) \o <<Sep>> \o NameOf(src) \o <<Dot, "webp">>
ThumbName(src) == Dir(src) \o <<Sep>> \o NameOf(src) \o <<"_thumbnail", Dot, "webp">>

OutputNames ==
    \A i \in Jobs :
        /\ touched[i] \subseteq {PlainName(files[i]), ThumbName(files[i])}
        /\ opts.thumbnailPercent = 0 => touched[i] \subseteq {PlainName(files[i])}
        /\ (opts.thumbnailPercent > 0 /\ touched[i] # {}) => ThumbName(files[i]) \in touched[i]

\* C7: a job that fails at encode, close or rename after creating a temp file
\* (primary or thumbnail) returns Failed with the temp file removed: every temp
\* file on disk is the one a job still in flight stands at, between its create
\* and its rename; after a run that completes no temp file remains.
WriteFaults == {"encode", "close", "rename", "thumbEncode", "thumbClose", "thumbRename"}

TempHeldBy(w, p) ==
    \/ wk[w].pc \in {"encode", "close", "rename"} /\ p = wk[w].tmpPath
    \/ wk[w].pc \in {"thumbEncode", "thumbClose", "thumbRename"} /\ p = wk[w].tmpThumb

TempFilesRemoved ==
    /\ \A p \in DOMAIN fs : IsTmp(p) => \E w \in Workers : TempHeldBy(w, p)
    /\ \A i \in Jobs :
          (fault[i] \in WriteFaults /\ produced[i] # <<>>) => produced[i] = <<"failed">>
    /\ main = "exit" => \A p \in DOMAIN fs : ~IsTmp(p)

\* A job whose thumbnail rename failed has returned, and its temp files are gone.
TempFilesRemovedWitness ==
    \E w \in Workers :
        /\ wk[w].pc = "send"
        /\ fault[wk[w].job] = "thumbRename"
        /\ wk[w].err = "failed"
        /\ ~Exists(fs, wk[w].tmpThumb)
        /\ ~Exists(fs, wk[w].tmpPath)

\* C8: with deleteOriginal, off the skip path, the source is deleted only after
\* the primary temp file was renamed onto the destination; when that deletion
\* fails the job reports Failed and the destination written stays in place.
DeleteAfterRename ==
    opts.deleteOriginal =>
        \A i \in Jobs :
            /\ (~Exists(fs, files[i]) /\ produced[i] # <<"skipped">>)
                  => makeOutPath(files[i]) \in touched[i]
            /\ (fault[i] = "remove" /\ makeOutPath(files[i]) \in touched[i]
                   /\ produced[i] # <<>>)
                  => /\ produced[i] = <<"failed">>
                     /\ Exists(fs, makeOutPath(files[i]))
                     /\ Exists(fs, files[i])

\* A job wrote its destination, failed to delete its source, and returned.
DeleteAfterRenameWitness ==
    /\ opts.deleteOriginal
    /\ \E i \in Jobs :
          /\ fault[i] = "remove"
          /\ makeOutPath(files[i]) \in touched[i]
          /\ produced[i] = <<"failed">>
          /\ fs[makeOutPath(files[i])].data = Webp(files[i], 0)

\* runConvert with one worker: the jobs converted one after the other in the
\* order of the list, job i suffering the failure plan[i]. The directory and the
\* outcomes it ends with.
RECURSIVE OneWorkerRun(_, _, _, _)
OneWorkerRun(f, i, plan, acc) ==
    IF i > Len(files) THEN [fs |-> f, outcomes |-> acc]
    ELSE LET r == convertOne(f, NewCall(i, files[i]), plan[i])
         IN  OneWorkerRun(r.fs, i + 1, plan, Append(acc, r.js.err))

Data(f) == [p \in DOMAIN f |-> f[p].data]

\* C4: whatever the number of workers and the interleaving, a run ends with the
\* outcomes and the directory of the one-worker run over the same job list, the
\* same options, the same initial directory and the same injected failures.
SameAsOneWorker ==
    PoolDone =>
        LET ref == OneWorkerRun(fs0, 1, fault, <<>>)
        IN  /\ \A i \in Jobs : produced[i] = <<ref.outcomes[i]>>
            /\ Data(fs) = Data(ref.fs)

\* C6: a failure of one job leaves the others alone: every job is still
\* converted and reported, and the outcome and the files of a job are those of
\* the run in which the other jobs suffer no failure. Stated of one-worker runs,
\* where the two runs differ in nothing but the failure.
FilesOf(i) == PathsOf(NewCall(i, files[i]))

FailureIsolated ==
    /\ LoopEnded => \A i \in Jobs : calls[i] = 1 /\ Len(printed[i]) = 1
    /\ (PoolDone /\ opts.workers = 1) =>
          \A j \in Jobs :
              LET alone == [i \in Jobs |-> IF i = j THEN fault[i] ELSE "none"]
                  ref == OneWorkerRun(fs0, 1, alone, <<>>)
              IN  /\ produced[j] = <<ref.outcomes[j]>>
                  /\ \A p \in FilesOf(j) :
                        /\ Exists(fs, p) <=> Exists(ref.fs, p)
                        /\ Exists(fs, p) => fs[p].data = ref.fs[p].data

\* C5: a job whose destination exists at the overwrite gate, overwrite being off.
\* Worker w takes its gate step on the skip path.
GateSkips(w) ==
    /\ wk[w].pc = "gate"
    /\ wk'[w].pc # "gate"
    /\ ~opts.overwrite
    /\ Exists(fs, makeOutPath(wk[w].path))

\* The step leaves every file but the source as it was: no temp file, no rename.
OnlySourceTouched(w) ==
    /\ DOMAIN fs' \ {wk[w].path} = DOMAIN fs \ {wk[w].path}
    /\ \A p \in DOMAIN fs \ {wk[w].path} : fs'[p] = fs[p]
    /\ wk'[w].wrote = {}

SourceDeleted(w) ==
    IF opts.deleteOriginal THEN ~Exists(fs', wk[w].path)
    ELSE Exists(fs', wk[w].path) /\ fs'[wk[w].path] = fs[wk[w].path]

\* The directory was already converted: every job's destination was there.
AlreadyConverted == \A i \in Jobs : Exists(fs0, makeOutPath(files[i]))

DestinationsUnchanged ==
    \A i \in Jobs : fs[makeOutPath(files[i])].data = fs0[makeOutPath(files[i])].data

\* C5 as claimed: the job reports Skipped, creates and renames nothing, leaves
\* the destination as it was, deletes the source exactly when deleteOriginal is
\* set; a run without overwrite over a converted directory reports only Skipped
\* and changes no destination.
SkipAlwaysSkipped ==
    /\ [][\A w \in Workers : GateSkips(w) =>
             /\ wk'[w].pc = "send" /\ wk'[w].err = "skipped"
             /\ OnlySourceTouched(w)
             /\ SourceDeleted(w)]_vars
    /\ []((LoopEnded /\ ~opts.overwrite /\ AlreadyConverted) =>
             /\ \A i \in Jobs : printed[i] = <<"SKIP">>
             /\ DestinationsUnchanged)

\* C5 amended: the same, except that with deleteOriginal set a failing deletion
\* of the source makes the job report Failed, the source staying in place; in the
\* run over a converted directory a job reports Skipped unless its source fails
\* to decode (the decode comes before the gate) or that deletion fails.
DeletionFailed(w) ==
    /\ opts.deleteOriginal
    /\ wk'[w].err = "failed"
    /\ fault'[wk[w].job] = "remove"
    /\ fs' = fs

SkipLeavesDestination ==
    /\ [][\A w \in Workers : GateSkips(w) =>
             /\ wk'[w].pc = "send"
             /\ OnlySourceTouched(w)
             /\ \/ wk'[w].err = "skipped" /\ SourceDeleted(w)
                \/ DeletionFailed(w)]_vars
    /\ []((LoopEnded /\ ~opts.overwrite /\ AlreadyConverted) =>
             /\ \A i \in Jobs :
                   \/ printed[i] = <<"SKIP">>
                   \/ fault[i] = "decode" /\ printed[i] = <<"FAIL">>
                   \/ opts.deleteOriginal /\ fault[i] = "remove" /\ printed[i] = <<"FAIL">>
             /\ DestinationsUnchanged)

\* A run over a converted two-image directory has ended, a source deleted at the gate.
SkipLeavesDestinationWitness ==
    /\ LoopEnded
    /\ ~opts.overwrite
    /\ opts.deleteOriginal
    /\ AlreadyConverted
    /\ Len(files) = 2
    /\ \E i \in Jobs : printed[i] = <<"SKIP">> /\ ~Exists(fs, files[i])

\* C2: under fair scheduling a run terminates: the feeder has handed off every
\* job and closed the job queue, every worker has exited, the results channel is
\* closed and the collector has left its loop. (A reachable deadlock among feeder,
\* workers and collector would be a fair behaviour that never gets there.)
Terminated ==
    /\ main = "exit"
    /\ files # <<>> =>
          /\ next = Len(files) + 1
          /\ jobsClosed
          /\ feeder = "exit"
          /\ \A w \in Workers : wk[w].pc = "exit"
          /\ wg = 0
          /\ resultsClosed

RunTerminates == <>Terminated

\* A two-worker run over two jobs has terminated.
RunTerminatesWitness ==
    /\ Terminated
    /\ Len(files) = 2
    /\ opts.workers = 2

\* C12: the results channel is closed only after the job queue was closed and
\* every worker has finished: once it is closed no worker is left to send on it,
\* and every outcome produced has been received by the collector.
ClosedAfterWorkers ==
    resultsClosed =>
        /\ jobsClosed
        /\ wg = 0
        /\ \A w \in Workers : wk[w].pc = "exit"
        /\ \A i \in Jobs : Len(produced[i]) = 1 /\ Len(printed[i]) = Len(produced[i])

\* results is closed after two workers each sent an outcome.
ClosedAfterWorkersWitness ==
    /\ resultsClosed
    /\ main = "collect"
    /\ opts.workers = 2
    /\ Len(files) = 2
    /\ \A i \in Jobs : Len(printed[i]) = 1

\* C13: the jobs handed to a worker whose outcome the collector has not yet
\* received are at most workerCount; the feeder hands a job off only to a worker
\* that is waiting on the job queue, never while all of them are busy.
Outstanding == {i \in Jobs : recvCount[i] > 0 /\ Len(printed[i]) < recvCount[i]}

AllBusy == \A w \in Workers : wk[w].pc # "recv"

InFlightBounded ==
    /\ [](Cardinality(Outstanding) <= opts.workers)
    /\ [][next' # next => ~AllBusy]_vars

\* One worker, two jobs: the worker is blocked sending the first outcome while
\* the feeder still holds the second job.
InFlightBoundedWitness ==
    /\ opts.workers = 1
    /\ Len(files) = 2
    /\ feeder = "feed"
    /\ next = 2
    /\ wk[1].pc = "send"
    /\ Cardinality(Outstanding) = 1

\* C20: a job that deleted its source has a file at its primary destination
\* path; a job that failed without having written its primary destination still
\* has its source.
SourceKeptUntilWritten ==
    \A i \in Jobs :
        /\ ~Exists(fs, files[i]) => Exists(fs, makeOutPath(files[i]))
        /\ (produced[i] = <<"failed">> /\ makeOutPath(files[i]) \notin touched[i])
              => Exists(fs, files[i])

\* With deleteOriginal a job wrote its destination and deleted its source, and
\* another failed at its primary rename and kept its source.
SourceKeptUntilWrittenWitness ==
    /\ opts.deleteOriginal
    /\ \E i, j \in Jobs :
          /\ produced[i] = <<"nil">>
          /\ ~Exists(fs, files[i])
          /\ fs[makeOutPath(files[i])].data.kind = "webp"
          /\ fault[j] = "rename"
          /\ produced[j] = <<"failed">>
          /\ Exists(fs, files[j])

\* C11: a job writes a second thumbnail file only when thumbnailPercent > 0 and
\* its primary output path was not redirected to the thumbnail name; and the
\* thumbnail write has its own gate: with overwrite off, a thumbnail file that
\* exists when the job comes to put its thumbnail in place is not replaced.
Redirected(input) == makeOutPath(input) = ThumbName(input)

SecondThumbnailOnlyUnredirected ==
    \A i \in Jobs :
        ThumbPathOf(makeOutPath(files[i])) \in touched[i]
            => opts.thumbnailPercent > 0 /\ ~Redirected(files[i])

ExistingThumbnailKept(w) ==
    (/\ wk[w].pc = "thumbRename"
     /\ wk'[w].pc # "thumbRename"
     /\ ~opts.overwrite
     /\ Exists(fs, wk[w].thumbPath))
        => /\ Exists(fs', wk[w].thumbPath)
           /\ fs'[wk[w].thumbPath] = fs[wk[w].thumbPath]

ThumbnailGated ==
    /\ []SecondThumbnailOnlyUnredirected
    /\ [][\A w \in Workers : ExistingThumbnailKept(w)]_vars

\* The non-transparent pixels of an image, as the claims speak of them: 8-bit
\* alpha above the threshold.
Content(m, threshold) == {xy \in Coords(m.w, m.h) : At(m, xy[1], xy[2]).a > threshold}

Trimmed == phase = "resize" /\ opts.trim

\* C14: findContentBounds returns the smallest rectangle, max exclusive, holding
\* every pixel whose alpha exceeds the threshold ({x, y, x+1, y+1} for a single
\* such pixel at (x, y)); with no such pixel its result has minX >= maxX.
BoundsAreMinimal ==
    Trimmed =>
        LET b == findContentBounds(decoded, opts.trimThreshold)
            C == Content(decoded, opts.trimThreshold)
        IN  IF C = {} THEN b.minX >= b.maxX
            ELSE /\ \A xy \in C : /\ b.minX <= xy[1] /\ xy[1] < b.maxX
                                  /\ b.minY <= xy[2] /\ xy[2] < b.maxY
                 /\ \E xy \in C : xy[1] = b.minX
                 /\ \E xy \in C : xy[1] = b.maxX - 1
                 /\ \E xy \in C : xy[2] = b.minY
                 /\ \E xy \in C : xy[2] = b.maxY - 1
                 /\ \A x \in 0..(decoded.w - 1), y \in 0..(decoded.h - 1) :
                       C = {<<x, y>>} =>
                           b = [minX |-> x, minY |-> y, maxX |-> x + 1, maxY |-> y + 1]

\* A 3x2 image whose only non-transparent pixel is at (1, 1) has been trimmed.
BoundsAreMinimalWitness ==
    /\ Trimmed
    /\ decoded.w = 3 /\ decoded.h = 2
    /\ Content(decoded, opts.trimThreshold) = {<<1, 1>>}
    /\ img.w = 1 /\ img.h = 1

\* C15: an image all of whose pixels have alpha <= threshold comes back from
\* trimImage as it went in: same size, same pixels.
TrimIdentity ==
    (Trimmed /\ Content(decoded, opts.trimThreshold) = {}) => img = decoded

\* An image one pixel wide with half transparent pixels, threshold 255.
TrimIdentityWitness ==
    /\ Trimmed
    /\ decoded.w = 1 /\ decoded.h = 3
    /\ opts.trimThreshold = 255
    /\ \E xy \in Coords(decoded.w, decoded.h) : At(decoded, xy[1], xy[2]) = Translucent
    /\ img = decoded

\* Two pixels are the same colour: color.Color values are compared by RGBA().
SameColor(c, d) == RGBA(c) = RGBA(d)

\* C16: an image with a non-transparent pixel comes back from trimImage with the
\* size of its content box, the pixel at (x-minX, y-minY) equal to the source
\* pixel at (x, y).
TrimCopiesContent ==
    (Trimmed /\ Content(decoded, opts.trimThreshold) # {}) =>
        LET b == findContentBounds(decoded, opts.trimThreshold)
        IN  /\ img.w = b.maxX - b.minX
            /\ img.h = b.maxY - b.minY
            /\ \A x \in b.minX..(b.maxX - 1), y \in b.minY..(b.maxY - 1) :
                  SameColor(At(img, x - b.minX, y - b.minY), At(decoded, x, y))

Resized == phase = "thumbnail"

\* C17: the clamp-resize applied to the size it produced gives that size again.
ResizeIdempotent ==
    Resized =>
        ClampSize(img.w, img.h, opts.maxWidth, opts.maxHeight) = <<img.w, img.h>>

\* A 6x4 image was made 3x2 for maxWidth 5, maxHeight 2.
ResizeIdempotentWitness ==
    /\ Resized
    /\ decoded.w = 6 /\ decoded.h = 4
    /\ opts.maxWidth = 5 /\ opts.maxHeight = 2
    /\ img.w = 3 /\ img.h = 2

\* C18: after the clamp-resize the image is no wider than maxWidth when
\* maxWidth > 0 and no higher than maxHeight when maxHeight > 0.
WithinBounds ==
    Resized =>
        /\ opts.maxWidth > 0 => img.w <= opts.maxWidth
        /\ opts.maxHeight > 0 => img.h <= opts.maxHeight

\* C19: for a percent in 1..100 the thumbnail's width and height are at least
\* 1 and at most the width and height of the image it is made from.
ThumbnailSizeInRange ==
    (phase = "encode" /\ opts.thumbnailPercent \in 1..100) =>
        /\ thumbDims = ThumbSize(img.w, img.h, opts.thumbnailPercent)
        /\ 1 <= thumbDims[1] /\ thumbDims[1] <= img.w
        /\ 1 <= thumbDims[2] /\ thumbDims[2] <= img.h

\* A 5x1 image at 10 percent: width 0.5 rounds to 1, height 0.1 is clamped to 1.
ThumbnailSizeInRangeWitness ==
    /\ phase = "encode"
    /\ opts.thumbnailPercent = 10
    /\ img.w = 5 /\ img.h = 1
    /\ thumbDims = <<1, 1>>

====
